---- MODULE Spec2Model ----
(***************************************************************************)
(* FaceKeeper: face-recognition attendance.  The model covers the durable  *)
(* store (database.py: users and attendance tables), enrollment            *)
(* (face_register.py), the real-time attendance session                    *)
(* (attendance.py: start_attendance) and the menu that drives them         *)
(* (main.py).  Strings produced by strftime are kept as sequences of       *)
(* character codes, and SQLite compares them bytewise.                     *)
(***************************************************************************)
EXTENDS Integers, Sequences, FiniteSets, TLC

\* ------------------------------------------------------------------ bounds
MaxUsers == 1
MaxDay == 2

\* ------------------------------------------------------- program constants
recognition_threshold == 70

\* Processes running main.py against the same attendance.db file.
Procs == {1, 2}

\* Dissimilarity scores recognizer.predict may report (around the threshold).
Confs == {45, 70, 85}
ConfsShared == {45}

\* Roll number typed at the registration prompt by the k-th person enrolled.
Roll(k) == 100 + k

\* Times of day (seconds after midnight) at which the wall clock is sampled:
\* 09:05:07 and 10:00:00.
Tods == <<32707, 36000>>

None == [none |-> TRUE]

\* ------------------------------------------------- strftime and text order
Pad2(n) == <<48 + (n \div 10), 48 + (n % 10)>>

Pad4(n) == <<48 + (n \div 1000), 48 + ((n \div 100) % 10),
             48 + ((n \div 10) % 10), 48 + (n % 10)>>

\* Calendar date of the model's day k: day 1 is 2024-01-30.
YMD(k) == IF 29 + k <= 31 THEN <<2024, 1, 29 + k>> ELSE <<2024, 2, k - 2>>

\* datetime.strftime("%Y-%m-%d")
StrfDate(k) == Pad4(YMD(k)[1]) \o <<45>> \o Pad2(YMD(k)[2]) \o <<45>> \o Pad2(YMD(k)[3])

\* datetime.strftime("%H:%M:%S")
StrfTime(sec) ==
  Pad2(sec \div 3600) \o <<58>> \o Pad2((sec \div 60) % 60) \o <<58>> \o Pad2(sec % 60)

\* SQLite BINARY collation on TEXT values (memcmp, shorter prefix first).
RECURSIVE TextLess(_, _)
TextLess(a, b) ==
  IF b = <<>> THEN FALSE
  ELSE IF a = <<>> THEN TRUE
  ELSE IF Head(a) # Head(b) THEN Head(a) < Head(b)
  ELSE TextLess(Tail(a), Tail(b))

\* --------------------------------------------------------------- variables
VARIABLES
  now,           \* wall clock: [day, ti], ti an index into Tods
  users,         \* users table in id order: users[id] = roll_number
  dirs,          \* roll numbers that have a known_faces/<roll>_<name> directory
  jpgs,          \* roll numbers whose directory holds at least one face_*.jpg
  modelFile,     \* face_recognizer.yml: [exists, labels], the labels it was trained on
  attendance,    \* attendance table in rowid order: [user_id, date, time, status]
  pc,            \* per process: "menu", "read", "faces", "insert"
  recognizer,    \* per process: labels of the loaded recognizer (self.recognizer;
                 \*   {} while it is None)
  label_map,     \* per process: self.label_map, user_id -> roll_number (<<>> while
                 \*   it is None: it is read only after a successful load)
  marked_today,  \* per process: self.marked_today
  face,          \* per process: the face last processed: None or [label, conf, shown]
  call,          \* per process: the mark_attendance call of that face: None or
                 \*   [user_id, date, time, result, error, raced]; result is
                 \*   "pending", "True" or "False"; raced is history: the
                 \*   call was in flight together with another process's call for
                 \*   the same (user_id, date) when no such row existed
  recorded,      \* history, per process: [user_id, date] of the calls that returned
                 \*   True in the session running
  cap,           \* per process: the session's cv2.VideoCapture is open
  today,         \* per process: the local variable today of start_attendance
                 \*   (line 79), None outside a session
  exit           \* per process: the way the frame loop was last left: "read"
                 \*   (line 89: cap.read failed and the error was printed), "q"
                 \*   (line 197), "none" while a loop runs or before the first

vars == <<now, users, dirs, jpgs, modelFile, attendance, pc, recognizer, label_map,
          marked_today, face, call, recorded, cap, today, exit>>

store == <<users, dirs, jpgs, modelFile, attendance>>
session == <<pc, recognizer, label_map, marked_today, face, call, recorded, cap, today,
            exit>>

\* ------------------------------------------------------------ database.py
Today == StrfDate(now.day)
Now == StrfTime(Tods[now.ti])

\* SELECT id, roll_number, name FROM users; [] when the store raises.
get_all_users(fault) ==
  IF fault THEN {} ELSE {<<id, users[id]>> : id \in 1..Len(users)}

get_user_by_roll(roll) == {id \in 1..Len(users) : users[id] = roll}

\* Faulty variant: the attendance table is created without UNIQUE(user_id, date).
NoUniqueConstraint(rows, user_id, date) == FALSE

\* UNIQUE(user_id, date) of the attendance table.
UniqueViolation(rows, user_id, date) ==
  \E k \in 1..Len(rows) : rows[k].user_id = user_id /\ rows[k].date = date

NewRow(user_id, date, time) ==
  [user_id |-> user_id, date |-> date, time |-> time, status |-> "Present"]

\* Faulty variant: INSERT OR REPLACE, the row of the day is overwritten.
mark_attendance_replace(rows, user_id, date, time, fault) ==
  IF fault THEN [rows |-> rows, result |-> FALSE, error |-> "Error"]
  ELSE IF UniqueViolation(rows, user_id, date)
       THEN [rows |-> [k \in 1..Len(rows) |->
                        IF rows[k].user_id = user_id /\ rows[k].date = date
                        THEN NewRow(user_id, date, time) ELSE rows[k]],
             result |-> TRUE, error |-> "none"]
       ELSE [rows |-> Append(rows, NewRow(user_id, date, time)),
             result |-> TRUE, error |-> "none"]

\* Faulty variant: the IntegrityError handler returns True.
mark_attendance_swallow(rows, user_id, date, time, fault) ==
  IF fault THEN [rows |-> rows, result |-> FALSE, error |-> "Error"]
  ELSE IF UniqueViolation(rows, user_id, date)
       THEN [rows |-> rows, result |-> TRUE, error |-> "IntegrityError"]
       ELSE [rows |-> Append(rows, NewRow(user_id, date, time)),
             result |-> TRUE, error |-> "none"]

\* INSERT INTO attendance (user_id, date, time) and commit, with the three
\* exits of mark_attendance: True, IntegrityError, any other sqlite3.Error.
mark_attendance(rows, user_id, date, time, fault) ==
  IF fault THEN [rows |-> rows, result |-> FALSE, error |-> "Error"]
  ELSE IF UniqueViolation(rows, user_id, date)
       THEN [rows |-> rows, result |-> FALSE, error |-> "IntegrityError"]
       ELSE [rows |-> Append(rows, NewRow(user_id, date, time)),
             result |-> TRUE, error |-> "none"]

\* ORDER BY over TEXT columns: a sort key is a tuple of texts, compared
\* column by column.
RECURSIVE KeyLess(_, _)
KeyLess(a, b) ==
  IF a = <<>> THEN FALSE
  ELSE IF Head(a) # Head(b) THEN TextLess(Head(a), Head(b))
  ELSE KeyLess(Tail(a), Tail(b))

\* x comes strictly before y in the order asked for.
Precedes(x, y, desc) == IF desc THEN KeyLess(y.key, x.key) ELSE KeyLess(x.key, y.key)

RECURSIVE InsertOrdered(_, _, _)
InsertOrdered(sorted, x, desc) ==
  IF sorted = <<>> THEN <<x>>
  ELSE IF Precedes(x, Head(sorted), desc) THEN <<x>> \o sorted
  ELSE <<Head(sorted)>> \o InsertOrdered(Tail(sorted), x, desc)

\* The items in key order; equal keys keep their rowid order (SQLite leaves
\* the order of equal keys open, and nothing here depends on it).
RECURSIVE OrderBy(_, _, _)
OrderBy(items, sorted, desc) ==
  IF items = <<>> THEN sorted
  ELSE OrderBy(Tail(items), InsertOrdered(sorted, Head(items), desc), desc)

\* attendance a JOIN users u ON a.user_id = u.id
Joined(row) == row.user_id \in 1..Len(users)

\* Faulty variant: the query has no ORDER BY, rows come in rowid order.
get_attendance_by_date_unordered(date) ==
  LET OfDate(row) == Joined(row) /\ row.date = date
      hits == SelectSeq(attendance, OfDate)
  IN [i \in 1..Len(hits) |->
        [roll_number |-> users[hits[i].user_id], time |-> hits[i].time,
         status |-> hits[i].status]]

\* SELECT u.name, u.roll_number, a.time, a.status ... WHERE a.date = ?
\* ORDER BY a.time  (the name goes with the roll number and is left out)
get_attendance_by_date(date) ==
  LET OfDate(row) == Joined(row) /\ row.date = date
      hits == SelectSeq(attendance, OfDate)
      keyed == [i \in 1..Len(hits) |-> [key |-> <<hits[i].time>>, row |-> hits[i]]]
      sorted == OrderBy(keyed, <<>>, FALSE)
  IN [i \in 1..Len(sorted) |->
        [roll_number |-> users[sorted[i].row.user_id], time |-> sorted[i].row.time,
         status |-> sorted[i].row.status]]

\* SELECT u.name, u.roll_number, a.date, a.time, a.status ...
\* ORDER BY a.date DESC, a.time DESC
get_all_attendance_records ==
  LET hits == SelectSeq(attendance, Joined)
      keyed == [i \in 1..Len(hits) |->
                  [key |-> <<hits[i].date, hits[i].time>>, row |-> hits[i]]]
      sorted == OrderBy(keyed, <<>>, TRUE)
  IN [i \in 1..Len(sorted) |->
        [roll_number |-> users[sorted[i].row.user_id], date |-> sorted[i].row.date,
         time |-> sorted[i].row.time, status |-> sorted[i].row.status]]

\* ------------------------------------------------------- face_register.py
\* train_recognizer: the new contents of face_recognizer.yml.
train_recognizer(us, ds, js, file) ==
  LET labels == {id \in 1..Len(us) : us[id] \in ds /\ us[id] \in js}
  IN IF Len(us) = 0 \/ labels = {} THEN file
     ELSE [exists |-> TRUE, labels |-> labels]

\* main.register_new_face: capture_face_samples, then train_recognizer when
\* the capture returned True.  opened: the webcam opened; captured: at least
\* one sample was written before the loop ended.
register_new_face(p, roll, opened, captured) ==
  /\ pc[p] = "menu"
  /\ IF get_user_by_roll(roll) # {}
     THEN UNCHANGED <<users, dirs, jpgs, modelFile>>
     ELSE /\ users' = Append(users, roll)
          /\ dirs' = dirs \cup {roll}
          /\ jpgs' = IF opened /\ captured THEN jpgs \cup {roll} ELSE jpgs
          /\ modelFile' = IF opened THEN train_recognizer(users', dirs', jpgs', modelFile)
                          ELSE modelFile
  /\ UNCHANGED <<now, attendance, session>>

\* main.retrain_recognizer
retrain_recognizer(p) ==
  /\ pc[p] = "menu"
  /\ modelFile' = train_recognizer(users, dirs, jpgs, modelFile)
  /\ UNCHANGED <<now, users, dirs, jpgs, attendance, session>>

\* ----------------------------------------------------------- attendance.py
\* Faulty variant: the threshold is inclusive.
RecognizedInclusive(conf) == conf <= recognition_threshold

\* Line 115: the face counts as recognized.
Recognized(conf) == conf < recognition_threshold

\* Faulty variant: the score is not looked at.
AcceptedAnyScore(label, conf, lm) == label \in DOMAIN lm

\* Lines 115-119: the face takes the attendance-marking path.
Accepted(label, conf, lm) == Recognized(conf) /\ label \in DOMAIN lm

\* Faulty variant: the cache is not reset when a session starts.
KeepCache(old) == old

\* Line 82: the dedup cache a session starts with.
FreshCache(old) == {}

\* Faulty variant: the label is never added to the cache.
CacheNeverUpdated(cache, label, result) == cache

\* Faulty variant: the label is added to the cache whatever was returned.
CacheAlways(cache, label, result) == cache \cup {label}

\* Lines 142-143: the dedup cache after mark_attendance returned `result`.
CacheAfter(cache, label, result) == IF result THEN cache \cup {label} ELSE cache

\* Faulty variant: the count is that of today's rows in the table.
SummaryOfTable(p) ==
  Cardinality({k \in 1..Len(attendance) : attendance[k].date = Today})

\* Line 204: the count the session prints when it ends; self.marked_today
\* keeps its value until the next session starts.
Summary(p) == Cardinality(marked_today[p])

\* Faulty variant: the session ends without cap.release().
EndSessionNoRelease(p) ==
  /\ pc' = [pc EXCEPT ![p] = "menu"]
  /\ face' = [face EXCEPT ![p] = None]
  /\ call' = [call EXCEPT ![p] = None]
  /\ recorded' = [recorded EXCEPT ![p] = {}]
  /\ today' = [today EXCEPT ![p] = None]
  /\ UNCHANGED <<recognizer, label_map, marked_today, cap>>

\* Lines 200-204: cap.release(), the summary, and the session returns to the
\* menu; its local variables are gone.  The caller sets how the loop was left.
EndSession(p) ==
  /\ pc' = [pc EXCEPT ![p] = "menu"]
  /\ face' = [face EXCEPT ![p] = None]
  /\ call' = [call EXCEPT ![p] = None]
  /\ recorded' = [recorded EXCEPT ![p] = {}]
  /\ cap' = [cap EXCEPT ![p] = FALSE]
  /\ today' = [today EXCEPT ![p] = None]
  /\ UNCHANGED <<recognizer, label_map, marked_today>>

\* load_recognizer, lines 41-51: the label_map built from get_all_users().
load_label_map(usersFault) ==
  [id \in {u[1] : u \in get_all_users(usersFault)} |-> users[id]]

\* start_attendance up to the first cap.read(): load_recognizer, open the
\* webcam, reset the cache.  usersFault: get_all_users raised inside
\* load_recognizer; opened: cap.isOpened().
start_attendance(p, usersFault, opened) ==
  /\ pc[p] = "menu"
  /\ modelFile.exists
  /\ recognizer' = [recognizer EXCEPT ![p] = modelFile.labels]
  /\ label_map' = [label_map EXCEPT ![p] = load_label_map(usersFault)]
  /\ IF opened
     THEN /\ cap' = [cap EXCEPT ![p] = TRUE]
          /\ today' = [today EXCEPT ![p] = Today]
          /\ marked_today' = [marked_today EXCEPT ![p] = FreshCache(marked_today[p])]
          /\ exit' = [exit EXCEPT ![p] = "none"]
          /\ pc' = [pc EXCEPT ![p] = "read"]
     ELSE UNCHANGED <<cap, today, marked_today, exit, pc>>
  /\ UNCHANGED <<now, store, face, call, recorded>>

\* Lines 87-93: ret, frame = cap.read().  frame_count (lines 84, 93) is written
\* and never read, so it is no part of the state.
cap_read(p, ret) ==
  /\ pc[p] = "read"
  /\ IF ret
     THEN /\ pc' = [pc EXCEPT ![p] = "faces"]
          /\ UNCHANGED <<recognizer, label_map, marked_today, face, call, recorded,
                         cap, today, exit>>
     ELSE /\ EndSession(p)
          /\ exit' = [exit EXCEPT ![p] = "read"]
  /\ UNCHANGED <<now, store>>

\* Lines 107-179 for one detected face, up to the date and time
\* mark_attendance takes from the clock (database.py 121-124).
process_face(p, label, conf) ==
  /\ pc[p] = "faces"
  /\ label \in recognizer[p]
  /\ IF Accepted(label, conf, label_map[p])
     THEN IF label \notin marked_today[p]
          THEN LET race == {q \in Procs \ {p} :
                             /\ pc[q] = "insert"
                             /\ call[q].user_id = label
                             /\ call[q].date = Today
                             /\ ~UniqueViolation(attendance, label, Today)}
               IN /\ face' = [face EXCEPT ![p] =
                            [label |-> label, conf |-> conf, shown |-> "Name"]]
                  /\ call' = [q \in Procs |->
                       IF q = p
                       THEN [user_id |-> label, date |-> Today, time |-> Now,
                             result |-> "pending", error |-> "none", raced |-> race # {}]
                       ELSE IF q \in race THEN [call[q] EXCEPT !.raced = TRUE]
                       ELSE call[q]]
                  /\ pc' = [pc EXCEPT ![p] = "insert"]
          ELSE /\ face' = [face EXCEPT ![p] = [label |-> label, conf |-> conf, shown |-> "Name"]]
               /\ call' = [call EXCEPT ![p] = None]
               /\ UNCHANGED pc
     ELSE /\ face' = [face EXCEPT ![p] =
                 [label |-> label, conf |-> conf,
                  shown |-> IF Recognized(conf) THEN "Nothing" ELSE "Unknown"]]
          /\ call' = [call EXCEPT ![p] = None]
          /\ UNCHANGED pc
  /\ UNCHANGED <<now, store, recognizer, label_map, marked_today, recorded, cap, today,
                 exit>>

\* database.py 126-138 and attendance.py 142-167: the INSERT, and what the
\* session does with mark_attendance's return value.
insert_attendance(p, fault) ==
  /\ pc[p] = "insert"
  /\ LET c == call[p]
         r == mark_attendance(attendance, c.user_id, c.date, c.time, fault)
     IN /\ attendance' = r.rows
        /\ call' = [call EXCEPT ![p].result = IF r.result THEN "True" ELSE "False",
                                ![p].error = r.error]
        /\ marked_today' = [marked_today EXCEPT ![p] = CacheAfter(@, c.user_id, r.result)]
        /\ face' = [face EXCEPT ![p].shown =
                      IF r.result THEN "Attendance Marked!" ELSE "Already Marked"]
        /\ recorded' = IF r.result
                       THEN [recorded EXCEPT ![p] =
                               @ \cup {[user_id |-> c.user_id, date |-> c.date]}]
                       ELSE recorded
  /\ pc' = [pc EXCEPT ![p] = "faces"]
  /\ UNCHANGED <<now, users, dirs, jpgs, modelFile, recognizer, label_map, cap, today,
                 exit>>

\* Faulty variant: 'q' is seen and the loop goes on to the next frame.
wait_key_no_break(p, quit) ==
  /\ pc[p] = "faces"
  /\ pc' = [pc EXCEPT ![p] = "read"]
  /\ face' = [face EXCEPT ![p] = None]
  /\ call' = [call EXCEPT ![p] = None]
  /\ exit' = [exit EXCEPT ![p] = IF quit THEN "q" ELSE @]
  /\ UNCHANGED <<recognizer, label_map, marked_today, recorded, cap, today>>
  /\ UNCHANGED <<now, store>>

\* Lines 194-198: imshow, waitKey; 'q' leaves the loop.
wait_key(p, quit) ==
  /\ pc[p] = "faces"
  /\ IF quit
     THEN /\ EndSession(p)
          /\ exit' = [exit EXCEPT ![p] = "q"]
     ELSE /\ pc' = [pc EXCEPT ![p] = "read"]
          /\ face' = [face EXCEPT ![p] = None]
          /\ call' = [call EXCEPT ![p] = None]
          /\ UNCHANGED <<recognizer, label_map, marked_today, recorded, cap, today, exit>>
  /\ UNCHANGED <<now, store>>

\* The wall clock moves on.
Tick ==
  /\ \/ /\ now.ti < Len(Tods)
        /\ now' = [now EXCEPT !.ti = @ + 1]
     \/ /\ now.ti = Len(Tods)
        /\ now.day < MaxDay
        /\ now' = [day |-> now.day + 1, ti |-> 1]
  /\ UNCHANGED <<store, session>>

\* ----------------------------------------------------------- specifications
SessionInit ==
  /\ pc = [p \in Procs |-> "menu"]
  /\ recognizer = [p \in Procs |-> {}]
  /\ label_map = [p \in Procs |-> <<>>]
  /\ marked_today = [p \in Procs |-> {}]
  /\ face = [p \in Procs |-> None]
  /\ call = [p \in Procs |-> None]
  /\ recorded = [p \in Procs |-> {}]
  /\ cap = [p \in Procs |-> FALSE]
  /\ today = [p \in Procs |-> None]
  /\ exit = [p \in Procs |-> "none"]

\* A fresh installation: empty tables, no samples, no trained model.
Init ==
  /\ now = [day |-> 1, ti |-> 1]
  /\ users = <<>>
  /\ dirs = {}
  /\ jpgs = {}
  /\ modelFile = [exists |-> FALSE, labels |-> {}]
  /\ attendance = <<>>
  /\ SessionInit

\* One process (main.py run once); the store may raise sqlite3.Error.
Next ==
  \/ \E roll \in {Roll(k) : k \in 1..(Len(users) + 1)}, opened \in BOOLEAN,
        captured \in BOOLEAN :
       Len(users) < MaxUsers /\ register_new_face(1, roll, opened, captured)
  \/ retrain_recognizer(1)
  \/ \E usersFault \in BOOLEAN, opened \in BOOLEAN : start_attendance(1, usersFault, opened)
  \/ \E ret \in BOOLEAN : cap_read(1, ret)
  \/ \E label \in 1..MaxUsers, conf \in Confs : process_face(1, label, conf)
  \/ \E fault \in BOOLEAN : insert_attendance(1, fault)
  \/ \E quit \in BOOLEAN : wait_key(1, quit)
  \/ Tick

Spec == Init /\ [][Next]_vars

\* Two processes on one store that never raises sqlite3.Error other than
\* IntegrityError, each with a webcam that opens and delivers frames.  Two users are enrolled and trained, no attendance is
\* recorded yet, and the clock stands at the last sampled instant of the
\* last day but one.
InitShared ==
  /\ now = [day |-> MaxDay - 1, ti |-> Len(Tods)]
  /\ users = <<Roll(1), Roll(2)>>
  /\ dirs = {Roll(1), Roll(2)}
  /\ jpgs = {Roll(1), Roll(2)}
  /\ modelFile = [exists |-> TRUE, labels |-> {1, 2}]
  /\ attendance = <<>>
  /\ SessionInit

NextShared ==
  \/ \E p \in Procs : start_attendance(p, FALSE, TRUE)
  \/ \E p \in Procs : cap_read(p, TRUE)
  \/ \E p \in Procs, label \in modelFile.labels, conf \in ConfsShared :
       process_face(p, label, conf)
  \/ \E p \in Procs : insert_attendance(p, FALSE)
  \/ \E p \in Procs, quit \in BOOLEAN : wait_key(p, quit)
  \/ Tick

SpecShared == InitShared /\ [][NextShared]_vars

\* Enrollment and training on their own: one process registers one person
\* more than Spec does, retrains, and loads what was trained; the store does
\* not fail and no face is shown to a running session.
NextEnroll ==
  \/ \E roll \in {Roll(k) : k \in 1..(Len(users) + 1)}, opened \in BOOLEAN,
        captured \in BOOLEAN :
       Len(users) < MaxUsers + 1 /\ register_new_face(1, roll, opened, captured)
  \/ retrain_recognizer(1)
  \/ \E opened \in BOOLEAN : start_attendance(1, FALSE, opened)
  \/ \E ret \in BOOLEAN : cap_read(1, ret)
  \/ \E quit \in BOOLEAN : wait_key(1, quit)
  \/ Tick

SpecEnroll == Init /\ [][NextEnroll]_vars

\* ------------------------------------------------------------------ claims
\* Row numbers of the rows of `rows` for (user_id, date).
RowsOf(rows, user_id, date) ==
  {k \in 1..Len(rows) : rows[k].user_id = user_id /\ rows[k].date = date}

\* Process p's mark_attendance call has returned.
Returned(p) == call[p] # None /\ call[p].result # "pending"

\* This step is process p executing the INSERT of its pending call.
InsertStep(p) == pc[p] = "insert" /\ pc'[p] = "faces"

\* C1: the attendance table never holds two rows with the same user_id and
\* date, however many mark_attendance calls, times and sessions there were.
C1_OneRowPerUserAndDate ==
  \A j, k \in 1..Len(attendance) :
    (attendance[j].user_id = attendance[k].user_id
       /\ attendance[j].date = attendance[k].date) => j = k

\* A second insert for a recorded (user_id, date) was attempted and refused,
\* in a table that holds several rows.
C1_Witness ==
  /\ Len(attendance) >= 2
  /\ \E p \in Procs : Returned(p) /\ call[p].error = "IntegrityError"

\* C2: a mark_attendance call for a (user_id, date) that no earlier call
\* reached (on a store that does not fail, exactly when the table has no row
\* for it) returns True and stores its time; every later call returns False
\* and leaves the stored row, its time included, as it was.
C2_FirstCallRecordsLaterCallsDoNot ==
  [][\A p \in Procs : InsertStep(p) =>
       LET c == call[p]
           before == RowsOf(attendance, c.user_id, c.date)
           after == RowsOf(attendance', c.user_id, c.date)
       IN IF before = {}
          THEN /\ call'[p].result = "True"
               /\ Cardinality(after) = 1
               /\ \A k \in after : attendance'[k].time = c.time
          ELSE /\ call'[p].result = "False"
               /\ after = before
               /\ \A k \in before : attendance'[k] = attendance[k]]_vars

\* A later call with another time returned False and the stored time is
\* still the first call's.
C2_Witness ==
  \E p \in Procs :
    /\ Returned(p)
    /\ call[p].result = "False"
    /\ \E k \in RowsOf(attendance, call[p].user_id, call[p].date) :
         attendance[k].time # call[p].time

\* C3: when the calls of two processes for the same (user_id, date) are in
\* flight together and no row for it exists, then once both have returned
\* exactly one returned True, the other False, and one row is stored.
C3_ConcurrentInsertsOneWins ==
  \A p, q \in Procs :
    (/\ p # q
     /\ Returned(p) /\ Returned(q)
     /\ call[p].raced /\ call[q].raced
     /\ call[p].user_id = call[q].user_id
     /\ call[p].date = call[q].date)
    => /\ {call[p].result, call[q].result} = {"True", "False"}
       /\ Cardinality(RowsOf(attendance, call[p].user_id, call[p].date)) = 1

\* Both racing calls have returned.
C3_Witness ==
  \E p, q \in Procs :
    /\ p # q
    /\ Returned(p) /\ Returned(q)
    /\ call[p].raced /\ call[q].raced
    /\ call[p].user_id = call[q].user_id
    /\ call[p].date = call[q].date
    /\ call[p].time # call[q].time

\* The face last processed by p was drawn as a known person: it went through
\* line 119 to the attendance-marking code of lines 138-167.
OnMarkingPath(p) == face[p].shown \in {"Name", "Attendance Marked!", "Already Marked"}

\* C4: a detected face takes the attendance-marking path exactly when its
\* label is a key of the session's label_map and its score is below the
\* threshold; a score equal to the threshold is rejected.
C4_AcceptedIffKnownAndBelowThreshold ==
  \A p \in Procs :
    face[p] # None =>
      (OnMarkingPath(p) <=> (/\ face[p].label \in DOMAIN label_map[p]
                             /\ face[p].conf < recognition_threshold))

\* A face of an enrolled user scored exactly the threshold and was rejected.
C4_Witness ==
  \E p \in Procs :
    /\ face[p] # None
    /\ face[p].conf = recognition_threshold
    /\ face[p].label \in DOMAIN label_map[p]
    /\ face[p].shown = "Unknown"

\* C6: whenever a session enters its frame loop, its dedup cache is empty.
C6_CacheEmptyAtSessionStart ==
  [][\A p \in Procs : (pc[p] = "menu" /\ pc'[p] = "read") => marked_today'[p] = {}]_vars

\* A session is in its loop with an empty cache although the table already
\* holds a row of today, written by an earlier session of the same object.
C6_Witness ==
  /\ pc[1] = "read"
  /\ marked_today[1] = {}
  /\ \E k \in 1..Len(attendance) : attendance[k].date = Today

\* This step is process p calling mark_attendance for user_id.
BeginsCall(p, user_id) ==
  pc[p] = "faces" /\ pc'[p] = "insert" /\ call'[p].user_id = user_id

\* C7: once mark_attendance has returned True for a user in a session, that
\* session calls mark_attendance for the user no more, and the table holds
\* exactly one row for the user on the date recorded.
C7_NoCallAfterRecorded ==
  /\ [][\A p \in Procs : \A r \in recorded[p] : ~BeginsCall(p, r.user_id)]_vars
  /\ [](\A p \in Procs : \A r \in recorded[p] :
          Cardinality(RowsOf(attendance, r.user_id, r.date)) = 1)

\* A user recorded in the session was accepted again and only the name was
\* drawn: the face went no further than the cache.
C7_Witness ==
  \E p \in Procs :
    /\ pc[p] = "faces"
    /\ face[p] # None
    /\ face[p].shown = "Name"
    /\ call[p] = None
    /\ \E r \in recorded[p] : r.user_id = face[p].label

\* C8: when mark_attendance returns False for a row that already exists, the
\* user is in the session's dedup cache afterwards (so that the session calls
\* mark_attendance at most once per user).
C8_AlreadyRecordedIsCached ==
  \A p \in Procs :
    (Returned(p) /\ call[p].error = "IntegrityError")
      => call[p].user_id \in marked_today[p]

\* This step is process p processing one detected face.
FaceStep(p) ==
  /\ pc[p] = "faces"
  /\ pc'[p] \in {"faces", "insert"}
  /\ face'[p] # None
  /\ now' = now
  /\ \A q \in Procs \ {p} : pc'[q] = pc[q] /\ face'[q] = face[q]

\* C9: processing a face that is rejected (score not below the threshold, or
\* label not in label_map) calls mark_attendance not, and leaves the table
\* and the dedup cache as they were.
C9_RejectedFaceChangesNothing ==
  [][\A p \in Procs :
       (/\ FaceStep(p)
        /\ ~(/\ face'[p].conf < recognition_threshold
             /\ face'[p].label \in DOMAIN label_map[p]))
       => /\ attendance' = attendance
          /\ marked_today' = marked_today
          /\ pc'[p] = "faces"
          /\ call'[p] = None]_vars

\* A face scored 85 against the threshold of 70 was drawn as unknown.
C9_Witness ==
  \E p \in Procs :
    /\ face[p] # None
    /\ face[p].conf = 85
    /\ face[p].shown = "Unknown"
    /\ call[p] = None

\* C10: "Already Marked" is shown for a face only when the table holds a row
\* for that user and date: a store error other than the uniqueness violation
\* is not reported as already recorded.
C10_AlreadyMarkedMeansRecorded ==
  \A p \in Procs :
    (face[p] # None /\ face[p].shown = "Already Marked")
      => RowsOf(attendance, call[p].user_id, call[p].date) # {}

\* The number a two-digit field of a strftime text stands for.
Field2(text, i) == (text[i] - 48) * 10 + (text[i + 1] - 48)

\* Seconds after midnight of an HH:MM:SS text.
SecondsOf(time) == Field2(time, 1) * 3600 + Field2(time, 4) * 60 + Field2(time, 7)

\* Days in calendar order of a YYYY-MM-DD text.
DayNumberOf(date) ==
  (Field2(date, 1) * 100 + Field2(date, 3)) * 10000 + Field2(date, 6) * 100 + Field2(date, 9)

\* C5: get_attendance_by_date(d) returns exactly the rows of date d, earliest
\* time first; get_all_attendance_records returns every row, latest date
\* first and, within a date, latest time first.
C5_QueriesOrdered ==
  /\ \A d \in {StrfDate(k) : k \in 1..MaxDay} :
       LET res == get_attendance_by_date(d)
           of_d == {k \in 1..Len(attendance) : attendance[k].date = d}
       IN /\ Len(res) = Cardinality(of_d)
          /\ \A k \in of_d : \E i \in 1..Len(res) :
               res[i] = [roll_number |-> users[attendance[k].user_id],
                         time |-> attendance[k].time, status |-> "Present"]
          /\ \A i, j \in 1..Len(res) :
               i < j => SecondsOf(res[i].time) <= SecondsOf(res[j].time)
  /\ LET all == get_all_attendance_records
     IN /\ Len(all) = Len(attendance)
        /\ \A k \in 1..Len(attendance) : \E i \in 1..Len(all) :
             all[i] = [roll_number |-> users[attendance[k].user_id],
                       date |-> attendance[k].date, time |-> attendance[k].time,
                       status |-> "Present"]
        /\ \A i, j \in 1..Len(all) :
             i < j => \/ DayNumberOf(all[i].date) > DayNumberOf(all[j].date)
                      \/ /\ all[i].date = all[j].date
                         /\ SecondsOf(all[i].time) >= SecondsOf(all[j].time)

\* The table holds rows of two dates, and two rows of one date whose rowid
\* order is not their time order.
C5_Witness ==
  /\ \E j, k \in 1..Len(attendance) : attendance[j].date # attendance[k].date
  /\ \E j, k \in 1..Len(attendance) :
       /\ j < k
       /\ attendance[j].date = attendance[k].date
       /\ SecondsOf(attendance[j].time) > SecondsOf(attendance[k].time)

ReadFails(p) == pc[p] = "read" /\ pc'[p] = "menu"

\* C12: when cap.read() fails the session is back at the menu with the webcam
\* released and no face or call in hand, its summary is that of the cache as
\* it stood, the table is as it was and still holds every row the session
\* recorded; and a session left this way processes nothing until a new one
\* is started.
C12_FrameSourceLostEndsSession ==
  /\ [][\A p \in Procs : ReadFails(p) =>
          /\ exit'[p] = "read"
          /\ ~cap'[p]
          /\ face'[p] = None /\ call'[p] = None
          /\ Summary(p)' = Cardinality(marked_today[p])
          /\ attendance' = attendance
          /\ \A r \in recorded[p] : RowsOf(attendance', r.user_id, r.date) # {}]_vars
  /\ [](\A p \in Procs : exit[p] = "read" => (pc[p] = "menu" /\ ~cap[p] /\ face[p] = None))

\* A session that had recorded a user lost its webcam: it is at the menu and
\* the row is in the table.
C12_Witness ==
  /\ exit[1] = "read"
  /\ pc[1] = "menu"
  /\ \E id \in marked_today[1] : RowsOf(attendance, id, Today) # {}

\* This step is process p's key check seeing 'q'.
QuitStep(p) == pc[p] = "faces" /\ pc'[p] = "menu"

C14_CachedFaceShownAlreadyMarked ==
  \A p \in Procs :
    (/\ pc[p] = "faces"
     /\ face[p] # None
     /\ face[p].conf < recognition_threshold
     /\ face[p].label \in DOMAIN label_map[p]
     /\ face[p].label \in marked_today[p]
     /\ call[p] = None)
    => face[p].shown = "Already Marked"

\* C15: a face scored below the threshold whose label is no key of label_map
\* is drawn as "Unknown", like a face scored at or above the threshold.
C15_UnmappedLabelShownUnknown ==
  \A p \in Procs :
    (/\ face[p] # None
     /\ face[p].conf < recognition_threshold
     /\ face[p].label \notin DOMAIN label_map[p])
    => face[p].shown = "Unknown"

\* C16: every row a session has written carries the date the session took
\* from the clock when it started (today, line 79).
C16_RowsCarrySessionDate ==
  \A p \in Procs : \A r \in recorded[p] : r.date = today[p]

\* C17: whenever train_recognizer would complete on the store as enrollment
\* left it, the labels it trains are the keys of the label_map that
\* load_recognizer builds next.
C17_TrainedLabelsAreDirectoryKeys ==
  LET file == train_recognizer(users, dirs, jpgs, [exists |-> FALSE, labels |-> {}])
  IN file.exists => file.labels = DOMAIN load_label_map(FALSE)

EndStep(p) == pc[p] # "menu" /\ pc'[p] = "menu"

\* C19: the count a session prints when it ends is the number of distinct
\* users for whom mark_attendance returned True in that session; a user whose
\* call was refused because an earlier session had recorded the day is not
\* in the count.
C19_SummaryCountsRecordedThisSession ==
  /\ [][\A p \in Procs : EndStep(p) =>
          Summary(p)' = Cardinality({r.user_id : r \in recorded[p]})]_vars
  /\ [](\A p \in Procs :
          (Returned(p) /\ call[p].error = "IntegrityError") =>
             Summary(p) = Cardinality(marked_today[p] \ {call[p].user_id}))

\* A session has ended with a count of 0 although the table holds a row of
\* today, recorded by an earlier session.
C19_Witness ==
  /\ pc[1] = "menu"
  /\ exit[1] # "none"
  /\ Summary(1) = 0
  /\ \E k \in 1..Len(attendance) : attendance[k].date = Today

====
